---- MODULE Spec2Model ----
(***************************************************************************)
(* A model of the uniquevec crate (src/src/lib.rs): UniqueVec<T>, a Vec    *)
(* wrapper that rejects elements already contained, and UniqueVecEq<T>,    *)
(* the same container restricted to T: Eq.                                 *)
(*                                                                         *)
(* One container is modelled.  Its element type T is fixed at              *)
(* construction: "usize" (T: Eq, values 1..MaxElem) or "f64" (T: PartialEq *)
(* only, values 1..MaxElem as 1.0, 2.0, ... and NaN).  Every action is one *)
(* call of the public API and records its input, the contents before the   *)
(* call and the value it returned.  The container is owned by one caller:  *)
(* a constructor runs when no container is held, and dropping the          *)
(* container ends its life.                                                *)
(***************************************************************************)
EXTENDS Integers, Sequences, FiniteSets

\* ---- bounds of the model ----
MaxElem == 2      \* element values are 1..MaxElem (plus NaN for f64)
MaxArgLen == 4    \* longest iterator handed to a bulk operation
MaxLen == 4       \* longest content explored; longer results are not produced

\* f64::NAN, encoded as a number outside 1..MaxElem
NaN == -1

VARIABLES
    live,    \* TRUE while a container is held
    ty,      \* the element type T: "usize" or "f64"
    inner,   \* the Vec<T> held by the container (field .0)
    isEq,    \* TRUE when the container is currently a UniqueVecEq<T>
    op,      \* the operation that produced this state
    arg,     \* its input: the iterator's items, or <<element>> for push
    before,  \* inner before the operation
    ret      \* its return value: an Option (None / Some) or a Vec<T>

vars == <<live, ty, inner, isEq, op, arg, before, ret>>

\* Option<T>
None == <<>>
Some(x) == <<x>>

\* the values of type T
Elems(t) == IF t = "f64" THEN (1..MaxElem) \cup {NaN} ELSE 1..MaxElem

\* every Vec<T> of length at most n
SeqsUpTo(S, n) == UNION {[1..k -> S] : k \in 0..n}

\* PartialEq::eq on T.  On usize it is integer equality; on f64 a NaN is
\* equal to nothing, itself included.
eq_bitwise(a, b) == a = b
eq(a, b) == IF a = NaN \/ b = NaN THEN FALSE ELSE a = b

\* <[T]>::contains: a linear scan that stops at the first equal element
contains_skip_first(v, x) == \E i \in 2..Len(v) : eq(v[i], x)
RECURSIVE contains(_, _)
contains(v, x) ==
    IF v = <<>> THEN FALSE
    ELSE IF eq(Head(v), x) THEN TRUE
    ELSE contains(Tail(v), x)

\* UniqueVec::new
new == <<>>

\* the filter_map closure of from_iter, run over the whole iterator:
\* new_inner collects the accepted elements, rest the ones filter_map keeps
RECURSIVE from_iter_fold(_, _, _)
from_iter_fold(iter, new_inner, rest) ==
    IF iter = <<>> THEN <<new_inner, rest>>
    ELSE LET element == Head(iter) IN
         IF contains(new_inner, element)
         THEN from_iter_fold(Tail(iter), new_inner, Append(rest, element))
         ELSE from_iter_fold(Tail(iter), Append(new_inner, element), rest)

\* UniqueVec::from_iter: <<Self(new_inner), rest>>
from_iter_last_wins(iter) ==
    LET keep(i) == \A j \in (i+1)..Len(iter) : ~eq(iter[j], iter[i])
        idx == [i \in 1..Len(iter) |-> i]
        pick(P(_)) == LET s == SelectSeq(idx, P) IN [k \in 1..Len(s) |-> iter[s[k]]]
        drop(i) == ~keep(i)
    IN <<pick(keep), pick(drop)>>
from_iter(iter) == from_iter_fold(iter, <<>>, <<>>)

\* UniqueVec::push: <<new contents, returned Option>>
push_always(v, element) == <<Append(v, element), IF contains(v, element) THEN Some(element) ELSE None>>
push(v, element) ==
    IF contains(v, element) THEN <<v, Some(element)>>
    ELSE <<Append(v, element), None>>

\* UniqueVec::clear
clear(v) == <<>>

\* UniqueVec::pop (Vec::pop): <<new contents, returned Option>>
pop_front(v) == IF Len(v) = 0 THEN <<v, None>> ELSE <<Tail(v), Some(Head(v))>>
pop(v) ==
    IF Len(v) = 0 THEN <<v, None>>
    ELSE <<[i \in 1..(Len(v) - 1) |-> v[i]], Some(v[Len(v)])>>

\* Iterator::partition with the predicate |elem| self.contains(elem):
\* self is borrowed and not modified while the iterator is drained
RECURSIVE partition(_, _, _, _)
partition(iter, self, left, right) ==
    IF iter = <<>> THEN <<left, right>>
    ELSE LET elem == Head(iter) IN
         IF contains(self, elem)
         THEN partition(Tail(iter), self, Append(left, elem), right)
         ELSE partition(Tail(iter), self, left, Append(right, elem))

\* calling push on every item in order, collecting what push hands back
RECURSIVE PushAll(_, _, _)
PushAll(v, xs, rejected) ==
    IF xs = <<>> THEN <<v, rejected>>
    ELSE LET r == push(v, Head(xs)) IN
         PushAll(r[1], Tail(xs), rejected \o r[2])

\* UniqueVec::extend_from_iter: <<new contents, duplicates>>
extend_from_iter_dups_first(self, iter) ==
    LET p == partition(iter, self, <<>>, <<>>) IN <<self \o p[1], p[2]>>
extend_from_iter(self, iter) ==
    LET p == partition(iter, self, <<>>, <<>>)
        duplicates == p[1]
        new_entries == p[2]
    IN <<self \o new_entries, duplicates>>

\* Extend::extend: the new contents; the duplicates are dropped
extend_by_push(self, iter) == PushAll(self, iter, <<>>)[1]
extend(self, iter) == extend_from_iter(self, iter)[1]

\* From<Vec<T>> for UniqueVec<T>
from_vec(value) == from_iter(value)[1]

\* From<Vec<T>> for UniqueVecEq<T>
from_vec_eq(value) == from_vec(value)

\* From<UniqueVec<T>> for UniqueVecEq<T>: Self(value)
into_eq(value) == value

\* From<UniqueVecEq<T>> for UniqueVec<T>: Self(value.0.0)
into_unique_vec(value) == value

----
\* ---- the container as a state machine ----

Init ==
    /\ live = TRUE
    /\ ty \in {"usize", "f64"}
    /\ inner = new
    /\ isEq = FALSE
    /\ op = "new"
    /\ arg = <<>>
    /\ before = <<>>
    /\ ret = <<>>

New ==
    /\ ~live
    /\ live' = TRUE
    /\ inner' = new
    /\ isEq' = FALSE
    /\ op' = "new"
    /\ arg' = <<>>
    /\ before' = inner
    /\ ret' = <<>>
    /\ UNCHANGED ty

FromIter ==
    /\ ~live
    /\ live' = TRUE
    /\ \E iter \in SeqsUpTo(Elems(ty), MaxArgLen) :
        /\ inner' = from_iter(iter)[1]
        /\ ret' = from_iter(iter)[2]
        /\ isEq' = FALSE
        /\ op' = "from_iter"
        /\ arg' = iter
        /\ before' = inner
        /\ UNCHANGED ty

FromVec ==
    /\ ~live
    /\ live' = TRUE
    /\ \E value \in SeqsUpTo(Elems(ty), MaxArgLen) :
        /\ inner' = from_vec(value)
        /\ ret' = <<>>
        /\ isEq' = FALSE
        /\ op' = "from_vec"
        /\ arg' = value
        /\ before' = inner
        /\ UNCHANGED ty

FromVecEq ==
    /\ ~live
    /\ live' = TRUE
    /\ ty = "usize"
    /\ \E value \in SeqsUpTo(Elems(ty), MaxArgLen) :
        /\ inner' = from_vec_eq(value)
        /\ ret' = <<>>
        /\ isEq' = TRUE
        /\ op' = "from_vec_eq"
        /\ arg' = value
        /\ before' = inner
        /\ UNCHANGED ty

Push ==
    /\ live
    /\ Len(inner) < MaxLen
    /\ \E element \in Elems(ty) :
        /\ inner' = push(inner, element)[1]
        /\ ret' = push(inner, element)[2]
        /\ op' = "push"
        /\ arg' = <<element>>
        /\ before' = inner
        /\ UNCHANGED <<live, ty, isEq>>

Clear ==
    /\ live
    /\ inner' = clear(inner)
    /\ ret' = <<>>
    /\ op' = "clear"
    /\ arg' = <<>>
    /\ before' = inner
    /\ UNCHANGED <<live, ty, isEq>>

Pop ==
    /\ live
    /\ inner' = pop(inner)[1]
    /\ ret' = pop(inner)[2]
    /\ op' = "pop"
    /\ arg' = <<>>
    /\ before' = inner
    /\ UNCHANGED <<live, ty, isEq>>

ExtendFromIter ==
    /\ live
    /\ \E iter \in SeqsUpTo(Elems(ty), MaxArgLen) :
        /\ Len(inner) + Len(iter) <= MaxLen
        /\ inner' = extend_from_iter(inner, iter)[1]
        /\ ret' = extend_from_iter(inner, iter)[2]
        /\ op' = "extend_from_iter"
        /\ arg' = iter
        /\ before' = inner
        /\ UNCHANGED <<live, ty, isEq>>

Extend ==
    /\ live
    /\ \E iter \in SeqsUpTo(Elems(ty), MaxArgLen) :
        /\ Len(inner) + Len(iter) <= MaxLen
        /\ inner' = extend(inner, iter)
        /\ ret' = <<>>
        /\ op' = "extend"
        /\ arg' = iter
        /\ before' = inner
        /\ UNCHANGED <<live, ty, isEq>>

IntoEq ==
    /\ live
    /\ ty = "usize"
    /\ ~isEq
    /\ inner' = into_eq(inner)
    /\ isEq' = TRUE
    /\ ret' = <<>>
    /\ op' = "into_eq"
    /\ arg' = <<>>
    /\ before' = inner
    /\ UNCHANGED <<live, ty>>

IntoUniqueVec ==
    /\ live
    /\ isEq
    /\ inner' = into_unique_vec(inner)
    /\ isEq' = FALSE
    /\ ret' = <<>>
    /\ op' = "into_unique_vec"
    /\ arg' = <<>>
    /\ before' = inner
    /\ UNCHANGED <<live, ty>>

\* the owner drops the container
Drop ==
    /\ live
    /\ live' = FALSE
    /\ inner' = <<>>
    /\ isEq' = FALSE
    /\ op' = "drop"
    /\ arg' = <<>>
    /\ before' = <<>>
    /\ ret' = <<>>
    /\ UNCHANGED ty

Next ==
    \/ New
    \/ FromIter
    \/ FromVec
    \/ FromVecEq
    \/ Push
    \/ Clear
    \/ Pop
    \/ ExtendFromIter
    \/ Extend
    \/ IntoEq
    \/ IntoUniqueVec
    \/ Drop

Spec == Init /\ [][Next]_vars

TypeOK ==
    /\ live \in BOOLEAN
    /\ ty \in {"usize", "f64"}
    /\ inner \in Seq(Elems(ty))
    /\ isEq \in BOOLEAN
    /\ isEq => ty = "usize"

----
\* ---- vocabulary of the properties ----

\* some element of v equals x
Member(v, x) == \E i \in 1..Len(v) : eq(v[i], x)

\* no two distinct positions of v hold equal elements
NoDup(v) == \A i, j \in 1..Len(v) : i # j => ~eq(v[i], v[j])

\* the subsequence of xs at the positions that satisfy P
Pick(xs, P(_)) ==
    LET s == SelectSeq([i \in 1..Len(xs) |-> i], P)
    IN [k \in 1..Len(s) |-> xs[s[k]]]

\* position i of xs repeats an earlier position
IsLater(xs, i) == \E j \in 1..(i - 1) : eq(xs[j], xs[i])

FirstOccurrences(xs) == LET P(i) == ~IsLater(xs, i) IN Pick(xs, P)
LaterOccurrences(xs) == LET P(i) == IsLater(xs, i) IN Pick(xs, P)

\* how often the value x occurs in xs
Count(xs, x) == Cardinality({i \in 1..Len(xs) : xs[i] = x})

----
\* ---- properties ----

\* C1: in every reachable state of a container whose element equality is an
\* equivalence relation (T = usize), no two distinct positions hold equal
\* elements.
C1_Uniqueness == ty = "usize" => NoDup(inner)

\* C2: extend_from_iter leaves the contents and returns the duplicates that
\* calling push on every item of the input in order, from the same starting
\* contents, would leave and hand back.
C2_ExtendEqualsRepeatedPush ==
    op = "extend_from_iter" => <<inner, ret>> = PushAll(before, arg, <<>>)

\* C3: push(e) returns Some(e) and leaves the contents unchanged when some
\* element equals e; otherwise it returns None and the contents are the old
\* contents with e appended.
C3_Push ==
    op = "push" =>
        LET e == arg[1] IN
        IF Member(before, e)
        THEN ret = Some(e) /\ inner = before
        ELSE /\ ret = None
             /\ Len(inner) = Len(before) + 1
             /\ inner[Len(inner)] = e
             /\ \A i \in 1..Len(before) : inner[i] = before[i]

C3_Witness ==
    /\ op = "push"
    /\ ret # None
    /\ Len(before) >= 2
    /\ eq(before[1], arg[1])

\* C4: from_iter(xs) returns the contents and the rejected list obtained by
\* starting from new() and calling push on each element of xs in order.
C4_FromIterEqualsPush ==
    op = "from_iter" => <<inner, ret>> = PushAll(new, arg, <<>>)

C4_Witness ==
    /\ op = "from_iter"
    /\ Len(inner) >= 2
    /\ ret # <<>>

\* C5: from_iter(xs) returns the first occurrence of each value of xs, in
\* input order, and the later occurrences, in input order, as the rejected
\* list; From<Vec<T>> returns the same unique sequence.
C5_FirstOccurrenceOrder ==
    /\ op = "from_iter" =>
        inner = FirstOccurrences(arg) /\ ret = LaterOccurrences(arg)
    /\ op = "from_vec" => inner = FirstOccurrences(arg)
    /\ from_iter(<<1, 33, 2, 0, 33, 4, 56, 2>>)
         = <<(<<1, 33, 2, 0, 4, 56>>), (<<33, 2>>)>>
    /\ from_vec(<<1, 33, 2, 0, 33, 4, 56, 2>>) = <<1, 33, 2, 0, 4, 56>>

C5_Witness ==
    /\ op = "from_iter"
    /\ arg = <<2, 1, 2>>
    /\ inner = <<2, 1>>
    /\ ret = <<2>>

\* C6: handing the contents of any reachable container to from_iter returns
\* the same elements in the same order and an empty rejected list.
C6_RoundTrip == ty = "usize" => from_iter(inner) = <<inner, <<>>>>

\* C7: pop on an empty container returns None and leaves it empty; on n
\* elements it returns the last one and leaves the first n-1 in order; it
\* creates no pair of equal elements.
C7_Pop ==
    op = "pop" =>
        /\ IF before = <<>>
           THEN ret = None /\ inner = <<>>
           ELSE /\ ret = Some(before[Len(before)])
                /\ inner = SubSeq(before, 1, Len(before) - 1)
        /\ NoDup(before) => NoDup(inner)
        /\ \A i, j \in 1..Len(inner) :
              (i # j /\ eq(inner[i], inner[j])) => eq(before[i], before[j])

C7_Witness ==
    /\ op = "pop"
    /\ Len(before) >= 2
    /\ ret = Some(before[Len(before)])
    /\ Len(inner) = Len(before) - 1

\* C8: the contents after Extend::extend(xs) are the contents after
\* extend_from_iter(xs) from the same starting contents, and extend returns
\* nothing.
C8_ExtendDelegates ==
    op = "extend" =>
        inner = extend_from_iter(before, arg)[1] /\ ret = <<>>

C8_Witness ==
    /\ op = "extend"
    /\ Len(arg) >= 2
    /\ arg[1] = arg[2]
    /\ ~Member(before, arg[1])
    /\ before # <<>>

\* C9: with f64 elements a NaN is never rejected by push, and pushing
\* 1.0, NaN, NaN onto an empty container accepts all three.
C9_NaNNeverRejected ==
    /\ (op = "push" /\ arg = <<NaN>>) =>
          ret = None /\ inner = Append(before, NaN)
    /\ PushAll(new, <<1, NaN, NaN>>, <<>>) = <<(<<1, NaN, NaN>>), <<>>>>

C9_Witness ==
    /\ ty = "f64"
    /\ op = "push"
    /\ before = <<1, NaN>>
    /\ arg = <<NaN>>
    /\ inner = <<1, NaN, NaN>>
    /\ ret = None

\* C10: extend_from_iter keeps the old contents as a prefix, appends the
\* items that equal no element of the old contents and returns the items
\* that equal one, both in input order; no item is lost or repeated.
C10_ExtendFrame ==
    /\ op = "extend_from_iter" =>
        LET dup(e) == Member(before, e)
            fresh(e) == ~Member(before, e)
            suffix == SubSeq(inner, Len(before) + 1, Len(inner))
        IN /\ Len(inner) = Len(before) + Len(arg) - Len(ret)
           /\ SubSeq(inner, 1, Len(before)) = before
           /\ suffix = SelectSeq(arg, fresh)
           /\ ret = SelectSeq(arg, dup)
           /\ \A x \in Elems(ty) :
                 Count(suffix, x) + Count(ret, x) = Count(arg, x)
    /\ extend_from_iter(<<3, 1, 19>>, <<73, 1843, 19, 3>>)
         = <<(<<3, 1, 19, 73, 1843>>), (<<19, 3>>)>>

C10_Witness ==
    /\ op = "extend_from_iter"
    /\ before # <<>>
    /\ ret # <<>>
    /\ Len(inner) > Len(before)
    /\ ret[1] # inner[Len(inner)]
====
